---- MODULE Spec2Model ----
(***************************************************************************)
(* The offline cache proxy of pangram_aid_webapp (src/sw.js).  The file    *)
(* holds two revisions of the service worker: the worker whose CACHE_VER   *)
(* is 'pangram-aid-v4' (lines 1-64) and the worker whose CACHE_VER is      *)
(* 'pangram-aid-v3' (lines 65-120).  Both are modelled; a revision is      *)
(* named by "v4" or "v3".  The host runtime (CacheStorage, Cache, fetch,   *)
(* the service worker lifecycle) is modelled by what the calls of the      *)
(* source do to the state the script can observe.                          *)
(***************************************************************************)
EXTENDS Naturals, Sequences, FiniteSets

\* ---------------------------------------------------------------- bounds
NTasks == 2        \* fetch events dispatched in one behaviour
MaxNetId == 2      \* distinct bodies the network can answer with

\* ------------------------------------------------------- program constants
Revs == {"v3", "v4"}

CACHE_VER(rev) == IF rev = "v4" THEN "pangram-aid-v4" ELSE "pangram-aid-v3"

\* A URL path is its list of path segments: "/" is <<"">>, "/app/" is
\* <<"app", "">>, "/app/index.html" is <<"app", "index.html">>.
\* The worker script is served from the directory "/app/" of its origin.
Base == <<"app">>

\* An entry of CORE_ASSETS: '/' is absolute, the './...' ones are relative.
Abs(segs) == [abs |-> TRUE, segs |-> segs]
Rel(segs) == [abs |-> FALSE, segs |-> segs]

CORE_ASSETS(rev) ==
  IF rev = "v4"
  THEN << Abs(<<"">>), Rel(<<"">>), Rel(<<"index.html">>),
          Rel(<<"config.json">>), Rel(<<"sw.js">>) >>
  ELSE << Abs(<<"">>), Rel(<<"">>), Rel(<<"index.html">>),
          Rel(<<"config.json">>) >>

\* URL resolution of a string against the worker's base URL.
ResolvePath(a) == IF a.abs THEN a.segs ELSE Base \o a.segs

Url(origin, path, query) == [origin |-> origin, path |-> path, query |-> query]

AssetUrl(a) == Url("self", ResolvePath(a), "")

\* caches.match('./index.html'): the request the string denotes.
IndexRequest ==
  [url |-> AssetUrl(Rel(<<"index.html">>)), method |-> "GET", mode |-> "other"]

\* ------------------------------------------------------------- responses
NoResp == [kind |-> "none"]

NetResp(n) == [kind |-> "net", id |-> n]

DefaultConfig(rev) ==
  [kind |-> "synth", status |-> 200,
   body |-> "{\"letters\":\"\",\"locale\":\"pl-PL\"}",
   ctype |-> IF rev = "v4" THEN "application/json; charset=utf-8"
                           ELSE "application/json"]

Offline == [kind |-> "synth", status |-> 503, statusText |-> "Offline",
            body |-> "Offline"]

\* ------------------------------------------------------- request universe
Origins == {"self", "other"}
ReqPaths == { Base \o <<"index.html">>, Base \o <<"config.json">>,
              Base \o <<"page.html">> }
Queries == {"", "?v=2"}
Methods == {"GET", "POST"}
Modes == {"navigate", "other"}

\* The requests a page sends: a navigation is a GET of a document of the
\* own origin; a request that carries a query is a GET; a request to another
\* origin is a plain GET; index.html is only ever navigated to.
Sendable(o, p, q, m, md) ==
  /\ md = "navigate" => m = "GET" /\ o = "self" /\ ~(p = Base \o <<"config.json">>)
  /\ q # "" => m = "GET"
  /\ o # "self" => m = "GET" /\ md = "other" /\ q = ""
  /\ p = Base \o <<"index.html">> => md = "navigate"

Requests ==
  { r \in [url : [origin : Origins, path : ReqPaths, query : Queries],
           method : Methods, mode : Modes] :
      Sendable(r.url.origin, r.url.path, r.url.query, r.method, r.mode) }

TaskIds == 1..NTasks

VARIABLES
  caches,   \* CacheStorage: the name-to-cache map, in creation order
  nextId,   \* identity of the next Cache object created
  life,     \* per revision: the position of its install / activate work
  c,        \* per revision: the Cache object `c` of the install handler
  keys,     \* per revision: `keys` of the activate handler, still to delete
  listed,   \* per revision: the Cache objects present when keys() answered
  task,     \* per fetch event: the position and locals of its handler
  recent    \* per URL: the Cache objects holding a copy, latest write first

vars == <<caches, nextId, life, c, keys, listed, task, recent>>

\* ------------------------------------------------------ Cache, CacheStorage
Names == { caches[i].name : i \in 1..Len(caches) }

Ids == { caches[i].id : i \in 1..Len(caches) }

HasName(n) == n \in Names

IndexOfName(n) == CHOOSE i \in 1..Len(caches) : caches[i].name = n

\* Request Matches Cached Item: URLs compared, the query left out when
\* ignoreSearch is set.
UrlMatches(u, v, ignoreSearch) ==
  /\ u.origin = v.origin
  /\ u.path = v.path
  /\ ignoreSearch \/ u.query = v.query

\* Cache.match on one list of items: the first matching item, else NoResp.
RECURSIVE ListMatch(_, _, _)
ListMatch(items, url, ignoreSearch) ==
  IF items = <<>> THEN NoResp
  ELSE IF UrlMatches(url, Head(items).url, ignoreSearch) THEN Head(items).resp
  ELSE ListMatch(Tail(items), url, ignoreSearch)

\* caches.match over the caches in creation order.
RECURSIVE StorageMatch(_, _, _)
StorageMatch(cs, url, ignoreSearch) ==
  IF cs = <<>> THEN NoResp
  ELSE LET r == ListMatch(Head(cs).items, url, ignoreSearch)
       IN IF r # NoResp THEN r ELSE StorageMatch(Tail(cs), url, ignoreSearch)

\* caches.match(request, options): a request that is not a GET matches
\* nothing (ignoreMethod is never set in the source).
CachesMatch(req, ignoreSearch) ==
  IF req.method # "GET" THEN NoResp
  ELSE StorageMatch(caches, req.url, ignoreSearch)

\* PutAccepts, had Cache.put taken a request of any method.
PutAcceptsAnyMethod(req) == TRUE

\* Cache.put rejects a request whose method is not GET and stores nothing.
PutAccepts(req) == req.method = "GET"

\* Cache.put on a list of items: the items of the same URL are replaced.
PutItem(items, url, resp) ==
  SelectSeq(items, LAMBDA it : ~UrlMatches(url, it.url, FALSE))
    \o << [url |-> url, resp |-> resp] >>

\* The CacheStorage after Cache object `id` took a put. A Cache object that
\* caches.delete removed from the map stays usable, but no name reaches it.
PutInto(cs, id, url, resp) ==
  [ i \in 1..Len(cs) |->
      IF cs[i].id = id
      THEN [cs[i] EXCEPT !.items = PutItem(cs[i].items, url, resp)]
      ELSE cs[i] ]

\* caches.open(name): the CacheStorage afterwards (the cache created at the
\* end of the map when absent).
OpenCaches(n) ==
  IF HasName(n) THEN caches
  ELSE Append(caches, [name |-> n, id |-> nextId, items |-> <<>>])

OpenId(n) == IF HasName(n) THEN caches[IndexOfName(n)].id ELSE nextId

OpenNextId(n) == IF HasName(n) THEN nextId ELSE nextId + 1

\* caches.delete(name)
DeleteCaches(n) == SelectSeq(caches, LAMBDA s : s.name # n)

\* ------------------------------------------------ the order of the writes
\* The URLs a store can hold an entry for.
AllUrls ==
  { AssetUrl(CORE_ASSETS(rev)[i]) : <<rev, i>> \in
      { <<rev, i>> \in Revs \X (1..Len(CORE_ASSETS("v4"))) :
          i <= Len(CORE_ASSETS(rev)) } }
  \cup { req.url : req \in Requests }

\* `recent` after Cache object `id` took a put for the URL: the object moves
\* to the front of the URL's list; a Cache object no name reaches is left out.
Touch(rec, id, url) ==
  IF id \in Ids
  THEN [rec EXCEPT ![url] = <<id>> \o SelectSeq(@, LAMBDA x : x # id)]
  ELSE rec

RECURSIVE TouchAll(_, _, _)
TouchAll(rec, id, assets) ==
  IF assets = <<>> THEN rec
  ELSE TouchAll(Touch(rec, id, AssetUrl(Head(assets))), id, Tail(assets))

\* `recent` after caches.delete(name).
Forget(rec, n) ==
  IF HasName(n)
  THEN [u \in AllUrls |->
          SelectSeq(rec[u], LAMBDA x : x # caches[IndexOfName(n)].id)]
  ELSE rec

\* ------------------------------------------------------------------ Init
IdleTask ==
  [pc |-> "idle", rev |-> "v4", req |-> IndexRequest, fresh |-> NoResp,
   result |-> NoResp, ref |-> 0, net |-> "none", handled |-> FALSE,
   looked |-> FALSE, fault |-> "none"]

Init ==
  /\ caches = <<>>
  /\ nextId = 1
  /\ life = [r \in Revs |-> "none"]
  /\ c = [r \in Revs |-> 0]
  /\ keys = [r \in Revs |-> {}]
  /\ listed = [r \in Revs |-> {}]
  /\ task = [t \in TaskIds |-> IdleTask]
  /\ recent = [u \in AllUrls |-> <<>>]

\* ------------------------------------------------------------- lifecycle
\* The revisions are deployed in the order of their versions: the v3 worker
\* is registered before a v4 worker exists, and the v4 worker is registered
\* when no v3 work is under way.
CanRegister(rev) ==
  /\ life[rev] = "none"
  /\ IF rev = "v3" THEN life["v4"] = "none"
     ELSE life["v3"] \in {"none", "failed", "active"}

\* install listener: `const c = await caches.open(CACHE_VER)`
InstallOpen(rev) ==
  /\ CanRegister(rev)
  /\ caches' = OpenCaches(CACHE_VER(rev))
  /\ nextId' = OpenNextId(CACHE_VER(rev))
  /\ c' = [c EXCEPT ![rev] = OpenId(CACHE_VER(rev))]
  /\ life' = [life EXCEPT ![rev] = "i_addAll"]
  /\ UNCHANGED <<keys, listed, task, recent>>

\* Cache.addAll rejects a list that names one URL twice.
HasDuplicates(assets) ==
  \E i, j \in 1..Len(assets) : i # j /\ AssetUrl(assets[i]) = AssetUrl(assets[j])

\* PutAll, had the handler stored the first asset only (c.add of one path).
PutAllFirstOnly(cs, id, assets, resp) ==
  IF assets = <<>> THEN cs
  ELSE PutInto(cs, id, AssetUrl(Head(assets)), resp)

\* The CacheStorage after Cache object `id` stored every asset of the list.
RECURSIVE PutAll(_, _, _, _)
PutAll(cs, id, assets, resp) ==
  IF assets = <<>> THEN cs
  ELSE PutAll(PutInto(cs, id, AssetUrl(Head(assets)), resp), id,
              Tail(assets), resp)

\* `await c.addAll(CORE_ASSETS)`, every asset fetched: all of them stored.
InstallAddAllOk(rev) ==
  /\ life[rev] = "i_addAll"
  /\ ~HasDuplicates(CORE_ASSETS(rev))
  /\ \E n \in 1..MaxNetId :
       caches' = PutAll(caches, c[rev], CORE_ASSETS(rev), NetResp(n))
  /\ recent' = TouchAll(recent, c[rev], CORE_ASSETS(rev))
  /\ life' = [life EXCEPT ![rev] = "i_skip"]
  /\ UNCHANGED <<nextId, c, keys, listed, task>>

\* InstallAddAllFail, had the handler stored the assets one by one: the
\* assets fetched before the failing one stay in the store.
InstallAddAllFailPartial(rev) ==
  /\ life[rev] = "i_addAll"
  /\ \E n \in 1..MaxNetId :
       caches' = PutInto(caches, c[rev], AssetUrl(Head(CORE_ASSETS(rev))),
                         NetResp(n))
  /\ life' = [life EXCEPT ![rev] = "failed"]
  /\ UNCHANGED <<nextId, c, keys, listed, task, recent>>

\* `await c.addAll(CORE_ASSETS)`, a fetch failed: addAll rejects, nothing is
\* stored, the handler's work rejects and the worker is discarded.
InstallAddAllFail(rev) ==
  /\ life[rev] = "i_addAll"
  /\ life' = [life EXCEPT ![rev] = "failed"]
  /\ UNCHANGED <<caches, nextId, c, keys, listed, task, recent>>

\* `await self.skipWaiting()`: the handler's work settles.
InstallSkipWaiting(rev) ==
  /\ life[rev] = "i_skip"
  /\ life' = [life EXCEPT ![rev] = "installed"]
  /\ UNCHANGED <<caches, nextId, c, keys, listed, task, recent>>

Other(rev) == IF rev = "v4" THEN "v3" ELSE "v4"

\* The host activates the installed worker: the worker it replaces becomes
\* redundant (its running fetch handlers go on), the activate event fires.
ActivateStart(rev) ==
  /\ life[rev] = "installed"
  /\ life' = [life EXCEPT ![rev] = "a_keys",
                          ![Other(rev)] =
                             IF @ = "active" THEN "redundant" ELSE @]
  /\ UNCHANGED <<caches, nextId, c, keys, listed, task, recent>>

\* StaleKeys without the filter: every listed name is deleted.
StaleKeysUnfiltered(rev, names) == names

\* `keys.filter(k => k !== CACHE_VER)`
StaleKeys(rev, names) == { k \in names : k # CACHE_VER(rev) }

\* activate listener: `const keys = await caches.keys()`; the names that
\* pass the filter are the ones the handler goes on to delete.
ActivateKeys(rev) ==
  /\ life[rev] = "a_keys"
  /\ keys' = [keys EXCEPT ![rev] = StaleKeys(rev, Names)]
  /\ listed' = [listed EXCEPT ![rev] =
                  { [name |-> caches[i].name, id |-> caches[i].id] :
                      i \in 1..Len(caches) }]
  /\ life' = [life EXCEPT ![rev] = "a_delete"]
  /\ UNCHANGED <<caches, nextId, c, task, recent>>

\* one `caches.delete(k)` of the Promise.all
ActivateDelete(rev) ==
  /\ life[rev] = "a_delete"
  /\ \E k \in keys[rev] :
       /\ caches' = DeleteCaches(k)
       /\ recent' = Forget(recent, k)
       /\ keys' = [keys EXCEPT ![rev] = @ \ {k}]
  /\ UNCHANGED <<nextId, life, c, listed, task>>

\* ActivateDeleted without the await: the handler goes on to claim the
\* pages while deletes are pending.
ActivateDeletedNoAwait(rev) ==
  /\ life[rev] = "a_delete"
  /\ life' = [life EXCEPT ![rev] = "a_claim"]
  /\ UNCHANGED <<caches, nextId, c, keys, listed, task, recent>>

\* `await Promise.all(...)` settles when every delete has.
ActivateDeleted(rev) ==
  /\ life[rev] = "a_delete"
  /\ keys[rev] = {}
  /\ life' = [life EXCEPT ![rev] = "a_claim"]
  /\ UNCHANGED <<caches, nextId, c, keys, listed, task, recent>>

\* `await self.clients.claim()`: the handler's work settles.
ActivateClaim(rev) ==
  /\ life[rev] = "a_claim"
  /\ life' = [life EXCEPT ![rev] = "active"]
  /\ UNCHANGED <<caches, nextId, c, keys, listed, task, recent>>

\* ---------------------------------------------------------- fetch listener
\* `url.pathname.endsWith('/config.json')`: the last segment of the path.
EndsWithConfig(path) == Len(path) > 0 /\ path[Len(path)] = "config.json"

\* `if (url.origin !== location.origin) return;` is in the v4 listener only.
PassedThrough(rev, req) == rev = "v4" /\ req.url.origin # "self"

\* The lookup options of the cache-first branch (line 48, line 106).
IgnoreSearch(rev) == rev = "v4"

\* CacheFirstPuts with the method test the wrong way round.
CacheFirstPutsInverted(rev, req) == req.method # "GET"

\* The guard before cache.put in the cache-first branch (line 53, line 112).
CacheFirstPuts(rev, req) ==
  IF rev = "v4" THEN req.method = "GET"
  ELSE req.method = "GET" /\ req.url.origin = "self"

Started(t) == task[t].pc # "idle"

\* The host dispatches a fetch event to the active worker; the listener runs
\* up to its first await.
Dispatch(t, rev, req) ==
  /\ task[t].pc = "idle"
  /\ \A u \in TaskIds : u < t => Started(u)
  /\ life[rev] = "active"
  /\ task' = [task EXCEPT ![t] =
       [IdleTask EXCEPT
          !.rev = rev, !.req = req,
          !.handled = ~PassedThrough(rev, req),
          !.pc = IF PassedThrough(rev, req) THEN "done"
                 ELSE IF EndsWithConfig(req.url.path) THEN "fetch"
                 ELSE "match"]]
  /\ UNCHANGED <<caches, nextId, life, c, keys, listed, recent>>

\* CacheFirstMatch without `if (cached) return cached;`: the network is
\* asked whatever the lookup found.
CacheFirstMatchNoReturn(t) ==
  /\ task[t].pc = "match"
  /\ task' = [task EXCEPT ![t].looked = TRUE, ![t].pc = "fetch"]
  /\ UNCHANGED <<caches, nextId, life, c, keys, listed, recent>>

\* cache-first: `const cached = await caches.match(request, ...)`,
\* `if (cached) return cached;`
CacheFirstMatch(t) ==
  /\ task[t].pc = "match"
  /\ LET cached == CachesMatch(task[t].req, IgnoreSearch(task[t].rev))
     IN task' = [task EXCEPT ![t].looked = TRUE,
                             ![t].result = cached,
                             ![t].pc = IF cached # NoResp THEN "done"
                                       ELSE "fetch"]
  /\ UNCHANGED <<caches, nextId, life, c, keys, listed, recent>>

\* `await fetch(request...)` answers (what an HTTP cache between the worker
\* and the network does with `cache: 'no-store'` is outside the model).
FetchOk(t) ==
  /\ task[t].pc = "fetch"
  /\ \E n \in 1..MaxNetId :
       task' = [task EXCEPT ![t].fresh = NetResp(n), ![t].net = "ok",
                            ![t].pc = "open"]
  /\ UNCHANGED <<caches, nextId, life, c, keys, listed, recent>>

\* `await fetch(request...)` rejects: control passes to the catch block.
FetchFail(t) ==
  /\ task[t].pc = "fetch"
  /\ task' = [task EXCEPT ![t].net = "fail", ![t].pc = "catch"]
  /\ UNCHANGED <<caches, nextId, life, c, keys, listed, recent>>

\* CallsPut, had the network-first branch left out its cache.put.
CallsPutCacheFirstOnly(rev, req) ==
  ~EndsWithConfig(req.url.path) /\ CacheFirstPuts(rev, req)

\* Whether the handler calls cache.put once the cache is open.
CallsPut(rev, req) ==
  EndsWithConfig(req.url.path) \/ CacheFirstPuts(rev, req)

\* OpenAndReturn with the cache name of the earlier revision left in place
\* of CACHE_VER.
OpenAndReturnStaleName(t) ==
  /\ task[t].pc = "open"
  /\ LET n == CACHE_VER("v3")
     IN /\ caches' = OpenCaches(n)
        /\ nextId' = OpenNextId(n)
        /\ task' = [task EXCEPT
             ![t].ref = OpenId(n),
             ![t].result = task[t].fresh,
             ![t].pc = IF CallsPut(task[t].rev, task[t].req) THEN "put"
                       ELSE "done"]
  /\ UNCHANGED <<life, c, keys, listed, recent>>

\* `const cache = await caches.open(CACHE_VER)`, then cache.put is called
\* without await and the network response is returned.
OpenAndReturn(t) ==
  /\ task[t].pc = "open"
  /\ LET n == CACHE_VER(task[t].rev)
     IN /\ caches' = OpenCaches(n)
        /\ nextId' = OpenNextId(n)
        /\ task' = [task EXCEPT
             ![t].ref = OpenId(n),
             ![t].result = task[t].fresh,
             ![t].pc = IF CallsPut(task[t].rev, task[t].req) THEN "put"
                       ELSE "done"]
  /\ UNCHANGED <<life, c, keys, listed, recent>>

\* The pending cache.put settles: stored when Cache.put accepts the request,
\* rejected (nobody awaits it) otherwise.
PutSettles(t) ==
  /\ task[t].pc = "put"
  /\ caches' = IF PutAccepts(task[t].req)
               THEN PutInto(caches, task[t].ref, task[t].req.url, task[t].fresh)
               ELSE caches
  /\ recent' = IF PutAccepts(task[t].req)
               THEN Touch(recent, task[t].ref, task[t].req.url)
               ELSE recent
  /\ task' = [task EXCEPT ![t].pc = "done"]
  /\ UNCHANGED <<nextId, life, c, keys, listed>>

\* ConfigFallback without the `|| new Response(...)` default.
ConfigFallbackNoDefault(rev, req) == CachesMatch(req, FALSE)

\* network-first catch block (lines 36-41, lines 97-100)
ConfigFallback(rev, req) ==
  LET cached == CachesMatch(req, FALSE)
  IN IF cached # NoResp THEN cached ELSE DefaultConfig(rev)

\* StaticFallback without `if (offline)`: the result of the lookup of
\* ./index.html is returned whatever it is.
StaticFallbackNoCheck(rev, req) ==
  IF rev = "v4"
  THEN IF req.mode = "navigate" THEN CachesMatch(IndexRequest, FALSE)
       ELSE Offline
  ELSE Offline

\* cache-first catch block (lines 55-62, lines 116-118); in the v3 listener
\* `cached` is the empty result of the lookup that came before.
StaticFallback(rev, req) ==
  IF rev = "v4"
  THEN LET offline == IF req.mode = "navigate"
                      THEN CachesMatch(IndexRequest, FALSE) ELSE NoResp
       IN IF offline # NoResp THEN offline ELSE Offline
  ELSE Offline

\* Catch, had the handler stored the response it falls back to.
CatchStoresFallback(t) ==
  /\ task[t].pc = "catch"
  /\ LET r == IF EndsWithConfig(task[t].req.url.path)
              THEN ConfigFallback(task[t].rev, task[t].req)
              ELSE StaticFallback(task[t].rev, task[t].req)
     IN /\ task' = [task EXCEPT ![t].looked = TRUE, ![t].result = r,
                                ![t].pc = "done"]
        /\ caches' = IF HasName(CACHE_VER(task[t].rev))
                     THEN PutInto(caches, OpenId(CACHE_VER(task[t].rev)),
                                  task[t].req.url, r)
                     ELSE caches
  /\ UNCHANGED <<nextId, life, c, keys, listed, recent>>

Catch(t) ==
  /\ task[t].pc = "catch"
  /\ task' = [task EXCEPT
       ![t].looked = IF EndsWithConfig(task[t].req.url.path) THEN TRUE
                     ELSE IF task[t].rev = "v4" /\ task[t].req.mode = "navigate"
                          THEN TRUE ELSE @,
       ![t].result = IF EndsWithConfig(task[t].req.url.path)
                     THEN ConfigFallback(task[t].rev, task[t].req)
                     ELSE StaticFallback(task[t].rev, task[t].req),
       ![t].pc = "done"]
  /\ UNCHANGED <<caches, nextId, life, c, keys, listed, recent>>

\* ------------------------------------------------------------------ Next
Lifecycle ==
  \E rev \in Revs :
    \/ InstallOpen(rev)
    \/ InstallAddAllOk(rev)
    \/ InstallAddAllFail(rev)
    \/ InstallSkipWaiting(rev)
    \/ ActivateStart(rev)
    \/ ActivateKeys(rev)
    \/ ActivateDelete(rev)
    \/ ActivateDeleted(rev)
    \/ ActivateClaim(rev)

Fetching ==
  \E t \in TaskIds :
    \/ \E rev \in Revs, req \in Requests : Dispatch(t, rev, req)
    \/ CacheFirstMatch(t)
    \/ FetchOk(t)
    \/ FetchFail(t)
    \/ OpenAndReturn(t)
    \/ PutSettles(t)
    \/ Catch(t)

Next == Lifecycle \/ Fetching

Spec == Init /\ [][Next]_vars

\* ------------------------------------------- failures of the cache store
\* `await caches.open(CACHE_VER)` rejects (the store cannot be opened): the
\* await is inside the try block, so control passes to the catch block.
OpenFails(t) ==
  /\ task[t].pc = "open"
  /\ task' = [task EXCEPT ![t].fault = "open", ![t].pc = "catch"]
  /\ UNCHANGED <<caches, nextId, life, c, keys, listed, recent>>

\* The pending cache.put rejects (the copy cannot be written): nobody awaits
\* it, nothing is stored.
PutFails(t) ==
  /\ task[t].pc = "put"
  /\ task' = [task EXCEPT ![t].fault = "put", ![t].pc = "done"]
  /\ UNCHANGED <<caches, nextId, life, c, keys, listed, recent>>

StoreFailure == \E t \in TaskIds : OpenFails(t) \/ PutFails(t)

NextF == Next \/ StoreFailure

\* The proxy on a host whose cache store can fail.
SpecF == Init /\ [][NextF]_vars

\* ------------------------------------------------ eviction of the storage
\* The host empties the origin's CacheStorage (site data cleared, storage
\* reclaimed): every cache is removed from the map; the workers and their
\* running handlers go on. Followed here for the time in which the latest
\* registered worker controls the pages.
Evict ==
  /\ caches # <<>>
  /\ \E rev \in Revs : life[rev] = "active" /\ life[Other(rev)] \in {"none", "redundant"}
  /\ caches' = <<>>
  /\ recent' = [u \in AllUrls |-> <<>>]
  /\ UNCHANGED <<nextId, life, c, keys, listed, task>>

NextE == Next \/ Evict

\* The proxy on a host that may empty the CacheStorage.
SpecE == Init /\ [][NextE]_vars

\* ---------------------------------------------------- vocabulary of claims
SameOrigin(req) == req.url.origin = "self"

IsGet(req) == req.method = "GET"

IsConfig(req) == EndsWithConfig(req.url.path)

\* The handler of fetch event t answers (or lets the request pass) in this step.
Finishes(t) == task[t].pc # "done" /\ task'[t].pc = "done"

StoreItems(n) == IF HasName(n) THEN caches[IndexOfName(n)].items ELSE <<>>

\* The entry the store of a revision's CACHE_VER holds for exactly this URL.
Stored(rev, url) == ListMatch(StoreItems(CACHE_VER(rev)), url, FALSE)

\* Every response some store holds for the URL (the query left out or not).
StoredResponses(url, ignoreSearch) ==
  UNION { { caches[i].items[j].resp :
              j \in { k \in 1..Len(caches[i].items) :
                        UrlMatches(url, caches[i].items[k].url, ignoreSearch) } } :
          i \in 1..Len(caches) }

\* The current CacheGeneration is the one of the worker that is active.
IsCurrent(rev) == life[rev] = "active"

\* ---------------------------------------------------------------------- C1
\* C1: when the handler of a same-origin GET for .../config.json whose
\* network fetch succeeded has finished its work in the worker of the current
\* CacheGeneration, the response it returned is the network response and the
\* store named CACHE_VER holds that response under the request's URL.
C1_NetworkFirstStoresLive ==
  [][\A t \in TaskIds :
       ( /\ Finishes(t)
         /\ SameOrigin(task'[t].req) /\ IsGet(task'[t].req)
         /\ IsConfig(task'[t].req)
         /\ task'[t].net = "ok"
         /\ IsCurrent(task'[t].rev) )
       => /\ task'[t].result = task'[t].fresh
          /\ task'[t].fresh # NoResp
          /\ (Stored(task[t].rev, task[t].req.url))' = task'[t].fresh]_vars

C1_Witness ==
  \E t \in TaskIds :
    /\ task[t].pc = "done" /\ task[t].rev = "v4" /\ IsCurrent("v4")
    /\ SameOrigin(task[t].req) /\ IsGet(task[t].req) /\ IsConfig(task[t].req)
    /\ task[t].net = "ok"
    /\ task[t].result = task[t].fresh
    /\ Stored("v4", task[t].req.url) = task[t].fresh

\* ---------------------------------------------------------------------- C2
ExactDefaultConfig ==
  [kind |-> "synth", status |-> 200,
   body |-> "{\"letters\":\"\",\"locale\":\"pl-PL\"}",
   ctype |-> "application/json; charset=utf-8"]

\* C2: a same-origin GET for .../config.json whose network fetch failed and
\* for which no store holds an entry is answered with the body
\* {"letters":"","locale":"pl-PL"} and the content type
\* application/json; charset=utf-8.
C2_DefaultConfigExact ==
  [][\A t \in TaskIds :
       ( /\ Finishes(t)
         /\ SameOrigin(task[t].req) /\ IsGet(task[t].req) /\ IsConfig(task[t].req)
         /\ task'[t].net = "fail"
         /\ CachesMatch(task[t].req, FALSE) = NoResp )
       => task'[t].result = ExactDefaultConfig]_vars

\* ---------------------------------------------------------------------- C3
IsStaticHitCase(t) ==
  /\ task[t].pc = "match"
  /\ SameOrigin(task[t].req) /\ IsGet(task[t].req) /\ ~IsConfig(task[t].req)
  /\ StoredResponses(task[t].req.url, FALSE) # {}

C4_StaleStoresDeleted ==
  \A rev \in Revs :
    life[rev] = "active" =>
      \A l \in listed[rev] :
        IF l.name = CACHE_VER(rev) THEN l.id \in Ids ELSE l.id \notin Ids

C4_Witness ==
  /\ life["v4"] = "active"
  /\ \E l \in listed["v4"] : l.name = CACHE_VER("v3") /\ l.id \notin Ids
  /\ \E l \in listed["v4"] : l.name = CACHE_VER("v4") /\ l.id \in Ids

\* ---------------------------------------------------------------------- C5
\* C5: whenever the activate handler's work of the latest registered worker
\* has settled, exactly one store exists and it is the one named by that
\* worker's CACHE_VER, whatever the fetch handlers (those of the superseded
\* worker included) have done in between.
C5_OnlyCurrentStoreExists ==
  \A rev \in Revs :
    (life[rev] = "active" /\ life[Other(rev)] \in {"none", "redundant"})
      => Names = {CACHE_VER(rev)}

\* ---------------------------------------------------------------------- C6
\* The entries of all the stores, each with the name of its store.
Entries ==
  UNION { { <<caches[i].name, caches[i].items[j]>> :
              j \in 1..Len(caches[i].items) } :
          i \in 1..Len(caches) }

\* C6: no step of the handler of a same-origin request whose method is not
\* GET adds, replaces or removes an entry of a store.
C6_NonGetNeverWritten ==
  [][\A t \in TaskIds :
       ( /\ task'[t] # task[t]
         /\ SameOrigin(task'[t].req) /\ ~IsGet(task'[t].req) )
       => Entries' = Entries]_vars

C6_Witness ==
  \E t \in TaskIds :
    /\ task[t].pc = "done" /\ task[t].net = "ok"
    /\ SameOrigin(task[t].req) /\ ~IsGet(task[t].req) /\ IsConfig(task[t].req)
    /\ task[t].result = task[t].fresh
    /\ task[t].fresh \notin StoredResponses(task[t].req.url, TRUE)

\* ---------------------------------------------------------------------- C7
IsResponse(r) == r.kind \in {"net", "synth"}

\* C7: a handled same-origin request whose network fetch failed is in its
\* catch block, which can always run, or has been answered with a response:
\* the handler's work is never rejected and never left without a result.
C7_NetworkFailureRecovered ==
  \A t \in TaskIds :
    (task[t].net = "fail" /\ SameOrigin(task[t].req)) =>
      \/ task[t].pc = "catch" /\ ENABLED Catch(t)
      \/ task[t].pc = "done" /\ task[t].handled /\ IsResponse(task[t].result)

C7_Witness ==
  /\ \E t \in TaskIds :
       /\ task[t].pc = "done" /\ task[t].net = "fail" /\ SameOrigin(task[t].req)
       /\ task[t].result = Offline
  /\ \E t \in TaskIds :
       /\ task[t].pc = "done" /\ task[t].net = "fail" /\ SameOrigin(task[t].req)
       /\ task[t].result.kind = "net"

\* ---------------------------------------------------------------------- C8
\* C8: a same-origin request whose network fetch succeeded is answered with
\* the network response also when opening the store or storing the copy
\* failed.
C8_StoreFailureSwallowed ==
  \A t \in TaskIds :
    ( /\ task[t].pc = "done" /\ SameOrigin(task[t].req)
      /\ task[t].net = "ok" /\ task[t].fault # "none" )
    => task[t].result = task[t].fresh

\* ---------------------------------------------------------------------- C9
\* C9: a same-origin navigation to a static path that has no stored entry
\* and whose network fetch failed is answered with the stored ./index.html
\* when there is one.
C9_NavigationFallsBackToRoot ==
  [][\A t \in TaskIds :
       ( /\ Finishes(t)
         /\ SameOrigin(task[t].req) /\ ~IsConfig(task[t].req)
         /\ task[t].req.mode = "navigate"
         /\ task'[t].net = "fail"
         /\ CachesMatch(IndexRequest, FALSE) # NoResp )
       => task'[t].result = CachesMatch(IndexRequest, FALSE)]_vars

\* --------------------------------------------------------------------- C10
\* C10: for a request to another origin the listener never calls
\* respondWith, never looks into a store, and no store ever holds an entry
\* of another origin.
C10_CrossOriginPassedThrough ==
  /\ \A t \in TaskIds :
       (Started(t) /\ ~SameOrigin(task[t].req)) =>
          /\ ~task[t].handled /\ ~task[t].looked
          /\ task[t].pc = "done" /\ task[t].result = NoResp
  /\ \A e \in Entries : e[2].url.origin = "self"

\* --------------------------------------------------------------------- C12
\* The URLs under which some store holds an entry.
StoredUrls ==
  UNION { { caches[i].items[j].url : j \in 1..Len(caches[i].items) } :
          i \in 1..Len(caches) }

\* C12: when the handler of a same-origin GET for a static path that had no
\* stored entry and whose network fetch succeeded has finished its work in
\* the worker of the current CacheGeneration, it has returned the network
\* response, the store named CACHE_VER holds that response under the
\* request's URL, and the lookup of an identical request now hits; and no
\* step taken while that generation stays current removes a stored URL, so
\* the lookup of a later identical request still hits.
C12_MissIsStoredForLater ==
  [][ /\ \A t \in TaskIds :
           ( /\ Finishes(t)
             /\ SameOrigin(task'[t].req) /\ IsGet(task'[t].req)
             /\ ~IsConfig(task'[t].req)
             /\ task'[t].net = "ok"
             /\ IsCurrent(task'[t].rev) )
           => /\ task'[t].result = task'[t].fresh
              /\ (Stored(task[t].rev, task[t].req.url))' = task'[t].fresh
              /\ (CachesMatch(task[t].req, IgnoreSearch(task[t].rev)))' # NoResp
      /\ (\E rev \in Revs : IsCurrent(rev) /\ IsCurrent(rev)')
           => StoredUrls \subseteq StoredUrls' ]_vars

C12_Witness ==
  \E t, u \in TaskIds :
    /\ t # u /\ task[t].rev = "v4" /\ task[u].rev = "v4" /\ IsCurrent("v4")
    /\ task[t].pc = "done" /\ task[t].net = "ok"
    /\ SameOrigin(task[t].req) /\ IsGet(task[t].req) /\ ~IsConfig(task[t].req)
    /\ Stored("v4", task[t].req.url) = task[t].fresh
    /\ task[u].req = task[t].req
    /\ task[u].pc = "done" /\ task[u].net = "none"
    /\ task[u].result = task[t].fresh

\* --------------------------------------------------------------------- C13
AllCoreAssetsStored(rev) ==
  /\ HasName(CACHE_VER(rev))
  /\ \A i \in 1..Len(CORE_ASSETS(rev)) :
       Stored(rev, AssetUrl(CORE_ASSETS(rev)[i])) # NoResp

\* C13: when the install handler's work has settled successfully, the store
\* named CACHE_VER exists and holds an entry for every path of CORE_ASSETS.
C13_InstallPopulatesStore ==
  \A rev \in Revs : life[rev] = "installed" => AllCoreAssetsStored(rev)

C13_Witness ==
  /\ life["v4"] = "installed"
  /\ Len(StoreItems(CACHE_VER("v4"))) = Len(CORE_ASSETS("v4"))
  /\ AllCoreAssetsStored("v4")

\* --------------------------------------------------------------------- C15
\* C15: an install whose population failed has written no entry (the step
\* in which addAll rejects changes no store, and the store named CACHE_VER
\* holds nothing), its work has failed, and it never goes on to skipWaiting
\* and activation.
C15_InstallAllOrNothing ==
  [][\A rev \in Revs :
       /\ (life[rev] = "i_addAll" /\ life'[rev] = "failed")
            => Entries' = Entries
       /\ life'[rev] = "failed" => (StoreItems(CACHE_VER(rev)))' = <<>>
       /\ life[rev] = "failed" => life'[rev] = "failed"]_vars

C15_Witness ==
  /\ life["v4"] = "failed"
  /\ HasName(CACHE_VER("v4")) /\ StoreItems(CACHE_VER("v4")) = <<>>
  /\ life["v3"] = "active"

\* --------------------------------------------------------------------- C16
\* C16: the install handler is about to force, or has forced, immediate
\* activation only with every core asset stored, and the activate handler
\* is claiming the pages only with every pending delete done and none of
\* the Cache objects listed under a stale name left in the CacheStorage.
C16_LifecycleStepsOrdered ==
  \A rev \in Revs :
    /\ life[rev] \in {"i_skip", "installed"} => AllCoreAssetsStored(rev)
    /\ life[rev] = "a_claim" =>
         /\ keys[rev] = {}
         /\ \A l \in listed[rev] : l.name # CACHE_VER(rev) => l.id \notin Ids

C16_Witness ==
  /\ life["v4"] = "a_claim"
  /\ \E l \in listed["v4"] : l.name = CACHE_VER("v3") /\ l.id \notin Ids
  /\ AllCoreAssetsStored("v4")

\* --------------------------------------------------------------------- C17
\* C17: the lookup of a same-origin GET for a static path whose URL differs
\* from the URL of a stored entry only in the query string is a hit,
\* answered with a response stored for that path and without a network
\* fetch; the fallback lookup of a configuration request whose network fetch
\* failed takes an entry of exactly the request's URL or none.
C17_StaticLookupIgnoresQuery ==
  [][\A t \in TaskIds :
       /\ ( /\ task[t].pc = "match" /\ task'[t] # task[t]
            /\ SameOrigin(task[t].req) /\ IsGet(task[t].req)
            /\ ~IsConfig(task[t].req)
            /\ StoredResponses(task[t].req.url, FALSE) = {}
            /\ StoredResponses(task[t].req.url, TRUE) # {} )
          => /\ task'[t].pc = "done" /\ task'[t].net = "none"
             /\ task'[t].result \in StoredResponses(task[t].req.url, TRUE)
       /\ ( /\ task[t].pc = "catch" /\ Finishes(t)
            /\ IsConfig(task[t].req) /\ task[t].net = "fail" )
          => \/ task'[t].result \in StoredResponses(task[t].req.url, FALSE)
             \/ /\ StoredResponses(task[t].req.url, FALSE) = {}
                /\ task'[t].result = DefaultConfig(task[t].rev)]_vars

\* --------------------------------------------------------------------- C18
\* What a step has written: the entries present after it and not before.
Written == Entries' \ Entries

\* What a step has removed or replaced.
Removed == Entries \ Entries'

\* C18: a step of the handler of fetch event t deletes no store, creates no
\* store but the one named by its worker's CACHE_VER, and writes or replaces
\* no entry but the one of its request's URL in the store of that name.
C18_FetchWritesOwnKeyOnly ==
  [][\A t \in TaskIds :
       task'[t] # task[t] =>
         /\ Names \subseteq Names'
         /\ Names' \ Names \subseteq {CACHE_VER(task'[t].rev)}
         /\ \A e \in Written \cup Removed :
              /\ e[1] = CACHE_VER(task'[t].rev)
              /\ e[2].url = task'[t].req.url]_vars

C18_Witness ==
  \E t \in TaskIds :
    /\ task[t].pc = "done" /\ task[t].rev = "v3" /\ life["v3"] = "redundant"
    /\ task[t].net = "ok" /\ task[t].ref \in Ids
    /\ Stored("v3", task[t].req.url) = task[t].fresh
    /\ HasName(CACHE_VER("v4"))

\* --------------------------------------------------------------------- C19
\* C19: the step in which a handler answers after a failed network fetch,
\* or answers a static request from a cache hit, leaves the CacheStorage as
\* it was, and no store ever holds a synthesized response.
C19_FallbackLeavesStoreUnchanged ==
  [][ /\ \A t \in TaskIds :
           ( /\ Finishes(t) /\ SameOrigin(task'[t].req)
             /\ \/ task'[t].net = "fail"
                \/ task[t].pc = "match" )
           => caches' = caches
      /\ \A e \in Entries' : e[2].resp.kind = "net" ]_vars

C19_Witness ==
  /\ \E t \in TaskIds :
       /\ task[t].pc = "done" /\ task[t].net = "fail" /\ SameOrigin(task[t].req)
       /\ task[t].result = DefaultConfig(task[t].rev)
       /\ StoredResponses(task[t].req.url, FALSE) = {}
  /\ \E t \in TaskIds :
       /\ task[t].pc = "done" /\ task[t].net = "none" /\ task[t].looked
       /\ SameOrigin(task[t].req) /\ task[t].result.kind = "net"

\* --------------------------------------------------------------------- C11
\* C11: a same-origin request to a static path that had no stored entry and
\* whose network fetch failed is answered with the response of status 503
\* and status text 'Offline' when it is no navigation, and also when it is
\* one but ./index.html is not stored.
C11_OfflineResponse ==
  [][\A t \in TaskIds :
       ( /\ Finishes(t) /\ task[t].pc = "catch"
         /\ SameOrigin(task[t].req) /\ ~IsConfig(task[t].req)
         /\ task[t].net = "fail"
         /\ \/ task[t].req.mode # "navigate"
            \/ CachesMatch(IndexRequest, FALSE) = NoResp )
       => /\ task'[t].result = Offline
          /\ task'[t].result.status = 503
          /\ task'[t].result.statusText = "Offline"]_vars

C11_Witness ==
  /\ \E t \in TaskIds :
       /\ task[t].pc = "done" /\ task[t].rev = "v4" /\ task[t].net = "fail"
       /\ SameOrigin(task[t].req) /\ ~IsConfig(task[t].req)
       /\ task[t].req.mode = "navigate" /\ task[t].result = Offline
  /\ \E t \in TaskIds :
       /\ task[t].pc = "done" /\ task[t].rev = "v4" /\ task[t].net = "fail"
       /\ SameOrigin(task[t].req) /\ ~IsConfig(task[t].req)
       /\ task[t].req.mode = "other" /\ task[t].result = Offline

\* --------------------------------------------------------------------- C14
\* The copy of the URL that was written last among the copies the stores
\* hold.
MostRecentCopy(url) ==
  IF recent[url] = <<>> THEN NoResp
  ELSE LET i == CHOOSE i \in 1..Len(caches) : caches[i].id = Head(recent[url])
       IN ListMatch(caches[i].items, url, FALSE)

\* C14: a same-origin GET request for .../config.json whose network fetch
\* failed while the stores hold copies for it is answered with the copy that
\* was stored last, whichever store holds it.
C14_FallbackIsMostRecentCopy ==
  [][\A t \in TaskIds :
       ( /\ Finishes(t) /\ task[t].pc = "catch"
         /\ SameOrigin(task[t].req) /\ IsConfig(task[t].req)
         /\ IsGet(task[t].req)
         /\ task[t].net = "fail"
         /\ StoredResponses(task[t].req.url, FALSE) # {} )
       => task'[t].result = MostRecentCopy(task[t].req.url)]_vars

====
